---- MODULE Spec2Model ----
(***************************************************************************)
(* Delta xDS subscription state machine                                    *)
(* (source/common/config/unified_mux/delta_subscription_state.cc).         *)
(*                                                                         *)
(* One DeltaSubscriptionState object, driven from the dispatcher thread:   *)
(* every entry point is one atomic action.  Hash sets and the hash map are *)
(* TLA+ sets and a function with a growing/shrinking DOMAIN; repeated      *)
(* protobuf fields of a response are sequences.                            *)
(***************************************************************************)
EXTENDS Integers, Sequences, FiniteSets, TLC

\* ------------------------------------------------------------------ bounds
\* Longest resources list of a DeltaDiscoveryResponse that is enumerated.
MaxResources == 2
\* Longest removed_resources list of a DeltaDiscoveryResponse.
MaxRemoved == 1

\* ------------------------------------------------------------ input domains
Names == {"a", "b"}
Versions == {"v1", "v2"}
Nonces == {"n1"}
\* type_url() of the subscription; the mux hands a subscription only the
\* responses of its own type URL, so message.type_url() is TypeUrl.
TypeUrl == "T"
OtherTypeUrl == "X"
SystemVersionInfo == "sv1"

\* ResourceState::waitingForServer(): a state without a version.
Waiting == "<waiting>"
\* An unset google.protobuf.Any (has_resource() is false).
NoPayload == "<none>"
\* Unset proto3 string field / absent values of the observation variables.
NoNonce == ""
NoRequest == [none |-> TRUE]
NoAck == [none |-> TRUE]

\* Grpc::Status::WellKnownGrpcStatus
Ok == 0
Internal == 13
\* A default-constructed google.rpc.Status (UpdateAck::error_detail_).
NoError == [code |-> Ok, message |-> ""]

\* envoy::service::discovery::v3::Resource, reduced to what the code reads:
\* resource is the type URL of the payload (NoPayload when has_resource() is
\* false), aliases is aliases_size() > 0, ttl is has_ttl().  Aliases are read
\* only on a resource without a payload, and nothing is read of a resource
\* whose payload has another type URL once the response is rejected for it.
Resource ==
  {r \in [name : Names, version : Versions,
          resource : {NoPayload, TypeUrl, OtherTypeUrl},
          aliases : BOOLEAN, ttl : BOOLEAN] :
     /\ r.aliases => r.resource = NoPayload
     /\ r.ttl => r.resource # OtherTypeUrl}

SeqsUpTo(S, n) == UNION {[1..k -> S] : k \in 0..n}

\* The place of x in the sequence seq.
Pos(seq, x) == CHOOSE i \in DOMAIN seq : seq[i] = x

\* r is listed no later than s: by name, then by version.
InOrder(r, s) ==
  \/ Pos(<<"a", "b">>, r.name) < Pos(<<"a", "b">>, s.name)
  \/ r.name = s.name /\ Pos(<<"v1", "v2">>, r.version) <= Pos(<<"v1", "v2">>, s.version)

\* The resources lists enumerated: up to MaxResources resources of one shape
\* (the same payload, aliases and ttl settings), names and versions free, so
\* that a list may repeat a name, also with two versions.  The code's verdict
\* on such a list does not depend on the order of its resources, which are
\* listed by name and version.
ResourceLists ==
  {l \in SeqsUpTo(Resource, MaxResources) :
     /\ \A i \in 1..Len(l) :
          /\ l[i].resource = l[1].resource
          /\ l[i].aliases = l[1].aliases
          /\ l[i].ttl = l[1].ttl
     /\ \A i \in 1..(Len(l) - 1) : InOrder(l[i], l[i + 1])}

\* The removed_resources lists enumerated: up to MaxRemoved names, listed in
\* one order, a name possibly repeated.
RemovedLists ==
  {l \in SeqsUpTo(Names, MaxRemoved) :
     \A i \in 1..(Len(l) - 1) : Pos(<<"a", "b">>, l[i]) <= Pos(<<"a", "b">>, l[i + 1])}

\* envoy::service::discovery::v3::DeltaDiscoveryResponse
Responses ==
  [nonce : Nonces, type_url : {TypeUrl},
   system_version_info : {SystemVersionInfo},
   resources : ResourceLists,
   removed_resources : RemovedLists]

\* Duplicate-free sequences over the set S (an expired-names batch).
Perms(S) ==
  {p \in [1..Cardinality(S) -> S] : \A i, j \in 1..Cardinality(S) : p[i] = p[j] => i = j}

Range(s) == {s[i] : i \in 1..Len(s)}

\* ------------------------------------------------------------------- state
VARIABLES
  resource_state_,   \* name -> Waiting or version (absl::flat_hash_map)
  names_added_,      \* pending subscribes
  names_removed_,    \* pending unsubscribes
  any_request_sent_yet_in_current_stream_,
  ttl_,              \* names with an armed TTL timer (TtlManager)
  supports_heartbeats_,
  op,                \* the entry point that ran last, with its arguments
  request,           \* the request the last step built, or NoRequest
  ack,               \* the UpdateAck the last step returned, or NoAck
  calls,             \* watcher callbacks the last step made, in order
  interest,          \* history: names added by the user and not removed since
  history            \* history of the user's removals, kept under SpecHistory

vars ==
  <<resource_state_, names_added_, names_removed_,
    any_request_sent_yet_in_current_stream_, ttl_, supports_heartbeats_,
    op, request, ack, calls, interest, history>>

EmptyMap == [n \in {} |-> Waiting]

\* The dispatcher thread is in its loop: no entry point is running and what the
\* last one handed to its caller has been taken.
Idle == [kind |-> "idle"]

\* f with key k set to v (operator[] assignment of the hash map).
Put(f, k, v) == [n \in DOMAIN f \cup {k} |-> IF n = k THEN v ELSE f[n]]
\* f without the keys in S (erase).
Erase(f, S) == [n \in DOMAIN f \ S |-> f[n]]

isWaitingForServer(state) == state = Waiting

\* No history is kept.
NoHistory == [recording |-> FALSE]

\* dropped: the names the user removed and has not added again, with no
\* request built and no stream opened since; unwanted: the names whose last
\* interest change was a removal.
EmptyHistory == [recording |-> TRUE, dropped |-> {}, unwanted |-> {}]

RecordInterest(h, cur_added, cur_removed) ==
  IF ~h.recording THEN h
  ELSE [h EXCEPT !.dropped = (@ \ cur_added) \cup cur_removed,
                 !.unwanted = (@ \ cur_added) \cup cur_removed]

RecordRequest(h) ==
  IF ~h.recording THEN h ELSE [h EXCEPT !.dropped = {}]

RecordRestart(h) ==
  IF ~h.recording THEN h ELSE [h EXCEPT !.dropped = {}]

\* The object as its constructor leaves it.
Constructed ==
  /\ resource_state_ = EmptyMap
  /\ names_added_ = {}
  /\ names_removed_ = {}
  /\ any_request_sent_yet_in_current_stream_ = FALSE
  /\ ttl_ = {}
  /\ supports_heartbeats_ \in BOOLEAN
  /\ op = Idle
  /\ request = NoRequest
  /\ ack = NoAck
  /\ calls = <<>>
  /\ interest = {}

Init == Constructed /\ history = NoHistory

InitHistory == Constructed /\ history = EmptyHistory

\* ------------------------------------------------ updateSubscriptionInterest
\* An addition that leaves an entry the table already has as it is.
InterestAddedTable_KeepEntry(table, cur_added) ==
  [n \in DOMAIN table \cup cur_added |-> IF n \in DOMAIN table THEN table[n] ELSE Waiting]

\* First loop: for (a : cur_added).
InterestAddedTable(table, cur_added) ==
  [n \in DOMAIN table \cup cur_added |-> IF n \in cur_added THEN Waiting ELSE table[n]]

\* A removal that forgets names_added_.erase(r).
InterestNamesAdded_NoErase(added, cur_added, cur_removed) ==
  added \cup cur_added

\* Second loop: for (r : cur_removed), run after the first.
InterestNamesAdded(added, cur_added, cur_removed) ==
  (added \cup cur_added) \ cur_removed

\* A removal that forgets names_removed_.insert(r).
InterestNamesRemoved_NoInsert(removed, cur_added, cur_removed) ==
  removed \ cur_added

InterestNamesRemoved(removed, cur_added, cur_removed) ==
  (removed \ cur_added) \cup cur_removed

updateSubscriptionInterest(cur_added, cur_removed) ==
  /\ resource_state_' = Erase(InterestAddedTable(resource_state_, cur_added), cur_removed)
  /\ names_added_' = InterestNamesAdded(names_added_, cur_added, cur_removed)
  /\ names_removed_' = InterestNamesRemoved(names_removed_, cur_added, cur_removed)
  /\ interest' = (interest \cup cur_added) \ cur_removed
  /\ history' = RecordInterest(history, cur_added, cur_removed)
  /\ op' = [kind |-> "update_interest", added |-> cur_added, removed |-> cur_removed]
  /\ request' = NoRequest
  /\ ack' = NoAck
  /\ calls' = <<>>
  /\ UNCHANGED <<any_request_sent_yet_in_current_stream_, ttl_,
                 supports_heartbeats_>>

UpdateSubscriptionInterest ==
  /\ op = Idle
  /\ \E cur_added \in SUBSET Names, cur_removed \in SUBSET Names :
       updateSubscriptionInterest(cur_added, cur_removed)

\* ---------------------------------------------------- subscriptionUpdatePending
\* A predicate that forgets the first request of a stream.
subscriptionUpdatePending_NoStream(dynamicContextChanged) ==
  \/ names_added_ # {}
  \/ names_removed_ # {}
  \/ dynamicContextChanged

\* dynamicContextChanged: what SubscriptionState::dynamicContextChanged()
\* returns, a flag of the base class that this class only reads.
subscriptionUpdatePending(dynamicContextChanged) ==
  \/ names_added_ # {}
  \/ names_removed_ # {}
  \/ ~any_request_sent_yet_in_current_stream_
  \/ dynamicContextChanged

\* The mux asks whether a request is due; the base class's flag may hold
\* either value.
SubscriptionUpdatePending ==
  /\ op = Idle
  /\ \E dynamicContextChanged \in BOOLEAN :
       op' = [kind |-> "update_pending",
              dynamic_context_changed |-> dynamicContextChanged,
              result |-> subscriptionUpdatePending(dynamicContextChanged)]
  /\ request' = NoRequest
  /\ ack' = NoAck
  /\ calls' = <<>>
  /\ UNCHANGED <<resource_state_, names_added_, names_removed_, ttl_,
                 any_request_sent_yet_in_current_stream_,
                 supports_heartbeats_, interest, history>>

\* --------------------------------------------------------- isHeartbeatResource
\* A classification that never recognises a heartbeat.
isHeartbeatResource_Never(table, resource) == FALSE

\* Runtime::runtimeFeatureEnabled("envoy.reloadable_features.vhds_heartbeats"):
\* the feature is held at off, where supports_heartbeats_ decides; at on the
\* object behaves as one whose supports_heartbeats_ is true.
vhds_heartbeats == FALSE

isHeartbeatResource(table, resource) ==
  IF ~supports_heartbeats_ /\ ~vhds_heartbeats
  THEN FALSE
  ELSE IF resource.name \notin DOMAIN table
  THEN FALSE
  ELSE /\ resource.resource = NoPayload
       /\ ~isWaitingForServer(table[resource.name])
       /\ resource.version = table[resource.name]

\* resource.resource().type_url(): "" for an unset Any.
PayloadTypeUrl(resource) ==
  IF resource.resource = NoPayload THEN "" ELSE resource.resource

\* ---------------------------------------------------------- handleGoodResponse
\* The first loop, from resource i on: either the EnvoyException thrown, or
\* the names seen and the non-heartbeat resources collected.
RECURSIVE ScanResources(_, _, _, _, _)
ScanResources(table, message, i, names_added_removed, non_heartbeat_resources) ==
  IF i > Len(message.resources)
  THEN [thrown |-> FALSE, names |-> names_added_removed,
        non_heartbeat |-> non_heartbeat_resources]
  ELSE LET resource == message.resources[i]
           seen == names_added_removed \cup {resource.name}
       IN IF resource.name \in names_added_removed
          THEN [thrown |-> TRUE,
                what |-> "duplicate name " \o resource.name
                         \o " found among added/updated resources"]
          ELSE IF isHeartbeatResource(table, resource)
          THEN ScanResources(table, message, i + 1, seen, non_heartbeat_resources)
          ELSE IF resource.resource = NoPayload /\ resource.aliases
          THEN ScanResources(table, message, i + 1, seen,
                             Append(non_heartbeat_resources, resource))
          ELSE IF message.type_url # PayloadTypeUrl(resource)
          THEN [thrown |-> TRUE,
                what |-> "type URL " \o PayloadTypeUrl(resource)
                         \o " embedded in an individual Any does not match"]
          ELSE ScanResources(table, message, i + 1, seen,
                             Append(non_heartbeat_resources, resource))

\* The second loop, over removed_resources, from name i on.
RECURSIVE ScanRemoved(_, _, _)
ScanRemoved(message, i, names_added_removed) ==
  IF i > Len(message.removed_resources)
  THEN [thrown |-> FALSE]
  ELSE LET name == message.removed_resources[i]
       IN IF name \in names_added_removed
          THEN [thrown |-> TRUE,
                what |-> "duplicate name " \o name
                         \o " found in the union of added+removed resources"]
          ELSE ScanRemoved(message, i + 1, names_added_removed \cup {name})

\* A validation that skips the loop over removed_resources.
Validate_SkipRemoved(table, message) ==
  ScanResources(table, message, 1, {}, <<>>)

\* Lines 98-123: the validation that runs before anything is written.
Validate(table, message) ==
  LET first == ScanResources(table, message, 1, {}, <<>>)
  IN IF first.thrown
     THEN first
     ELSE LET second == ScanRemoved(message, 1, first.names)
          IN IF second.thrown THEN second ELSE first

\* ------------------------------------------------------------------ TtlManager
\* ttl_.add(duration, name): the timer of name is armed, or armed anew.
TtlAdd(ttl, name) == ttl \cup {name}
\* ttl_.clear(name): the timer of name, if any, is cancelled.
TtlClear(ttl, name) == ttl \ {name}
\* The timers of a batch of names fire: the manager forgets them.
TtlFired(ttl, batch) == ttl \ batch

\* ------------------------------------------------------------ addResourceState
\* An addResourceState that leaves a timer running when the resource has no ttl.
addResourceStateTtl_NoClear(ttl, resource) ==
  IF resource.ttl THEN TtlAdd(ttl, resource.name) ELSE ttl

addResourceStateTtl(ttl, resource) ==
  IF resource.ttl THEN TtlAdd(ttl, resource.name) ELSE TtlClear(ttl, resource.name)

addResourceStateTable(table, resource) ==
  Put(table, resource.name, resource.version)

\* for (resource : message.resources()) addResourceState(resource), from i on.
RECURSIVE AddAllTtl(_, _, _)
AddAllTtl(ttl, resources, i) ==
  IF i > Len(resources) THEN ttl
  ELSE AddAllTtl(addResourceStateTtl(ttl, resources[i]), resources, i + 1)

RECURSIVE AddAllTable(_, _, _)
AddAllTable(table, resources, i) ==
  IF i > Len(resources) THEN table
  ELSE AddAllTable(addResourceStateTable(table, resources[i]), resources, i + 1)

\* A handler that calls the watcher before it writes the table.
TableAtCallback_Untouched(table, message) == table

\* resource_state_ when callbacks().onConfigUpdate is called at line 132: the
\* loop of lines 127-129 has run, the loop of lines 143-147 has not.
TableAtCallback(table, message) ==
  AddAllTable(table, message.resources, 1)

\* A removal that erases the entry instead of blanking it.
MarkRemoved_Erase(table, removed_resources) ==
  Erase(table, Range(removed_resources))

\* Lines 143-147: removed names that have an entry go back to Waiting.
MarkRemoved(table, removed_resources) ==
  [n \in DOMAIN table |-> IF n \in Range(removed_resources) THEN Waiting ELSE table[n]]

OnConfigUpdate(added, removed, version) ==
  [fn |-> "onConfigUpdate", added |-> added, removed |-> removed, version |-> version]

OnConfigUpdateFailed(reason, e) ==
  [fn |-> "onConfigUpdateFailed", reason |-> reason, e |-> e]

\* e.what() of an EnvoyException raised by the watcher.
WatcherError == "rejected by the watcher"

\* handleBadResponse: the ack becomes a NACK.  truncateGrpcStatusMessage leaves
\* a text this short as it is.
NackOf(ack0, what) ==
  [ack0 EXCEPT !.error_detail = [code |-> Internal, message |-> what]]

\* -------------------------------------------------------------- handleResponse
\* UpdateAck ack(response->nonce(), type_url()).
NewAck(message) ==
  [nonce |-> message.nonce, type_url |-> TypeUrl, error_detail |-> NoError]

\* watcher_throws: callbacks().onConfigUpdate raises an EnvoyException.
\* Lines 71-75 when handleGoodResponse throws in its validation.
RejectMalformed(message, what) ==
  /\ UNCHANGED <<resource_state_, ttl_>>
  /\ ack' = NackOf(NewAck(message), what)
  /\ calls' = <<OnConfigUpdateFailed("UpdateRejected", what)>>
  /\ op' = [kind |-> "handle_response", message |-> message, watcher_throws |-> FALSE]

\* Lines 125-147 and the catch of lines 73-75; watcher_throws: the call of
\* callbacks().onConfigUpdate raises an EnvoyException.
Apply(message, non_heartbeat_resources, watcher_throws) ==
  LET added == AddAllTable(resource_state_, message.resources, 1)
      update == OnConfigUpdate(non_heartbeat_resources, message.removed_resources,
                               message.system_version_info)
  IN /\ ttl_' = AddAllTtl(ttl_, message.resources, 1)
     /\ IF watcher_throws
        THEN /\ resource_state_' = added
             /\ ack' = NackOf(NewAck(message), WatcherError)
             /\ calls' = <<update, OnConfigUpdateFailed("UpdateRejected", WatcherError)>>
        ELSE /\ resource_state_' = MarkRemoved(added, message.removed_resources)
             /\ ack' = NewAck(message)
             /\ calls' = <<update>>
     /\ op' = [kind |-> "handle_response", message |-> message,
               watcher_throws |-> watcher_throws,
               resource_state_at_callback |-> TableAtCallback(resource_state_, message)]

handleResponse(message) ==
  LET v == Validate(resource_state_, message)
  IN /\ IF v.thrown
        THEN RejectMalformed(message, v.what)
        ELSE \E watcher_throws \in BOOLEAN :
               Apply(message, v.non_heartbeat, watcher_throws)
     /\ request' = NoRequest
     /\ UNCHANGED <<names_added_, names_removed_,
                    any_request_sent_yet_in_current_stream_,
                    supports_heartbeats_, interest, history>>

HandleResponse ==
  /\ op = Idle
  /\ \E message \in Responses : handleResponse(message)

\* ------------------------------------------------- handleEstablishmentFailure
\* A failure handler that also marks the stream fresh.
HandleEstablishmentFailure_Resets ==
  /\ op = Idle
  /\ calls' = <<OnConfigUpdateFailed("ConnectionFailure", "nullptr")>>
  /\ op' = [kind |-> "establishment_failure"]
  /\ request' = NoRequest
  /\ ack' = NoAck
  /\ any_request_sent_yet_in_current_stream_' = FALSE
  /\ UNCHANGED <<resource_state_, names_added_, names_removed_, ttl_,
                 supports_heartbeats_, interest, history>>

HandleEstablishmentFailure ==
  /\ op = Idle
  /\ calls' = <<OnConfigUpdateFailed("ConnectionFailure", "nullptr")>>
  /\ op' = [kind |-> "establishment_failure"]
  /\ request' = NoRequest
  /\ ack' = NoAck
  /\ UNCHANGED <<resource_state_, names_added_, names_removed_,
                 any_request_sent_yet_in_current_stream_, ttl_,
                 supports_heartbeats_, interest, history>>

\* ------------------------------------------------------ getNextRequestInternal
\* A snapshot that reports every entry, the waiting ones too.
InitialResourceVersions_All(table) ==
  [n \in DOMAIN table |-> table[n]]

\* initial_resource_versions of a first request: the entries that have a version.
InitialResourceVersions(table) ==
  [n \in {m \in DOMAIN table : ~isWaitingForServer(table[m])} |-> table[n]]

\* names_added_ at line 188, after the first-request block.
SubscribeNames(first, table, added) ==
  IF first THEN added \cup DOMAIN table ELSE added

\* A first request that keeps the pending unsubscribes.
UnsubscribeNames_Kept(first, removed) ==
  removed

\* names_removed_ at line 190, after the first-request block.
UnsubscribeNames(first, removed) ==
  IF first THEN {} ELSE removed

getNextRequestInternal ==
  LET first == ~any_request_sent_yet_in_current_stream_
  IN [type_url |-> TypeUrl,
      initial_resource_versions |->
        IF first THEN InitialResourceVersions(resource_state_) ELSE EmptyMap,
      resource_names_subscribe |-> SubscribeNames(first, resource_state_, names_added_),
      resource_names_unsubscribe |-> UnsubscribeNames(first, names_removed_),
      response_nonce |-> NoNonce,
      error_detail |-> NoError,
      has_error_detail |-> FALSE]

\* What getNextRequestInternal leaves behind.
RequestBuilt ==
  /\ any_request_sent_yet_in_current_stream_' = TRUE
  /\ names_added_' = {}
  /\ names_removed_' = {}
  /\ ack' = NoAck
  /\ calls' = <<>>
  /\ history' = RecordRequest(history)
  /\ UNCHANGED <<resource_state_, ttl_, supports_heartbeats_, interest>>

GetNextRequestAckless ==
  /\ op = Idle
  /\ request' = getNextRequestInternal
  /\ op' = [kind |-> "next_request_ackless",
            first |-> ~any_request_sent_yet_in_current_stream_]
  /\ RequestBuilt

\* A builder that forgets set_response_nonce.
WithAck_NoNonce(req, a) ==
  [req EXCEPT !.has_error_detail = (a.error_detail.code # Ok),
              !.error_detail = IF a.error_detail.code # Ok THEN a.error_detail ELSE NoError]

\* A builder that copies error_detail whatever its code.
WithAck_AlwaysDetail(req, a) ==
  [req EXCEPT !.response_nonce = a.nonce,
              !.has_error_detail = TRUE,
              !.error_detail = a.error_detail]

\* error_detail is attached when the ack's code is not Ok.
WithAck(req, a) ==
  [req EXCEPT !.response_nonce = a.nonce,
              !.has_error_detail = (a.error_detail.code # Ok),
              !.error_detail = IF a.error_detail.code # Ok THEN a.error_detail ELSE NoError]

\* The acks handleResponse can return.
Acks ==
  [nonce : Nonces, type_url : {TypeUrl},
   error_detail : {NoError, [code |-> Internal, message |-> WatcherError]}]

GetNextRequestWithAck ==
  /\ op = Idle
  /\ \E a \in Acks :
    /\ request' = WithAck(getNextRequestInternal, a)
    /\ op' = [kind |-> "next_request_with_ack", ack |-> a,
              first |-> ~any_request_sent_yet_in_current_stream_]
    /\ RequestBuilt

\* ----------------------------------------------------------- ttlExpiryCallback
\* An expiry that erases the entries instead of blanking them.
ExpireAll_Erase(table, expired) ==
  Erase(table, Range(expired))

ExpireAll(table, expired) ==
  [n \in DOMAIN table \cup Range(expired) |->
     IF n \in Range(expired) THEN Waiting ELSE table[n]]

\* The TtlManager's timer fires for a batch of names whose deadlines passed and
\* drops them from its map before it calls back.
TtlExpiry ==
  /\ op = Idle
  /\ \E batch \in SUBSET ttl_ :
    /\ batch # {}
    /\ \E expired \in Perms(batch) :
         /\ ttl_' = TtlFired(ttl_, batch)
         /\ resource_state_' = ExpireAll(resource_state_, expired)
         /\ calls' = <<OnConfigUpdate(<<>>, expired, "")>>
         /\ op' = [kind |-> "ttl_expiry", expired |-> expired]
    /\ request' = NoRequest
    /\ ack' = NoAck
    /\ UNCHANGED <<names_added_, names_removed_,
                   any_request_sent_yet_in_current_stream_,
                   supports_heartbeats_, interest, history>>

\* -------------------------------------------------------------- markStreamFresh
\* The mux opens a new stream: the stream-scoped flag is reset.
MarkStreamFresh ==
  /\ op = Idle
  /\ any_request_sent_yet_in_current_stream_
  /\ any_request_sent_yet_in_current_stream_' = FALSE
  /\ history' = RecordRestart(history)
  /\ UNCHANGED <<op, request, ack, calls>>
  /\ UNCHANGED <<resource_state_, names_added_, names_removed_, ttl_,
                 supports_heartbeats_, interest>>

\* The entry point returns to the dispatcher loop; its caller has taken the
\* request or the ack it was handed.
Return ==
  /\ op # Idle
  /\ op' = Idle
  /\ request' = NoRequest
  /\ ack' = NoAck
  /\ calls' = <<>>
  /\ UNCHANGED <<resource_state_, names_added_, names_removed_, ttl_,
                 any_request_sent_yet_in_current_stream_,
                 supports_heartbeats_, interest, history>>

Next ==
  \/ UpdateSubscriptionInterest
  \/ SubscriptionUpdatePending
  \/ HandleResponse
  \/ HandleEstablishmentFailure
  \/ GetNextRequestAckless
  \/ GetNextRequestWithAck
  \/ TtlExpiry
  \/ MarkStreamFresh
  \/ Return

Spec == Init /\ [][Next]_vars

\* The same object, with the history of the user's removals recorded.
SpecHistory == InitHistory /\ [][Next]_vars

\* ===================================================================== claims

IsRequest(o) == o.kind \in {"next_request_ackless", "next_request_with_ack"}
IsResponse(o) == o.kind = "handle_response"
IsNack(a) == a.error_detail.code # Ok
KnownNames(table) == {n \in DOMAIN table : table[n] \in Versions}
WaitingNames(table) == {n \in DOMAIN table : table[n] = Waiting}
ConfigUpdates(cs) == {i \in 1..Len(cs) : cs[i].fn = "onConfigUpdate"}
UpdateFailures(cs) == {i \in 1..Len(cs) : cs[i].fn = "onConfigUpdateFailed"}

\* C1: in every reachable state the pending sets names_added_ and
\* names_removed_ are disjoint, also after an update_interest call that lists
\* one name as added and as removed.
C1_PendingDisjoint == names_added_ \cap names_removed_ = {}

\* An update_interest call that listed a name on both sides has run.
C1_Witness ==
  /\ op.kind = "update_interest"
  /\ op.added \cap op.removed # {}
  /\ names_removed_ # {}

\* C2: a request built when any_request_sent_yet was true carries no
\* initial_resource_versions; one built when it was false maps exactly the
\* Known names of the table to their versions and omits the Waiting names.
C2_InitialVersions ==
  [][IsRequest(op') =>
       LET irv == request'.initial_resource_versions
       IN IF any_request_sent_yet_in_current_stream_
          THEN DOMAIN irv = {}
          ELSE /\ DOMAIN irv = KnownNames(resource_state_)
               /\ DOMAIN irv \cap WaitingNames(resource_state_) = {}
               /\ \A n \in DOMAIN irv : irv[n] = resource_state_[n]]_vars

\* A first request reported a version for one name and none for a waiting one.
C2_Witness ==
  /\ IsRequest(op)
  /\ op.first
  /\ DOMAIN request.initial_resource_versions # {}
  /\ WaitingNames(resource_state_) # {}

\* C3: the first request of a stream subscribes to every name of the table
\* together with the pending names_added_, unsubscribes from nothing whatever
\* names_removed_ held, and leaves any_request_sent_yet true.
C3_FirstRequest ==
  [][(IsRequest(op') /\ ~any_request_sent_yet_in_current_stream_) =>
       /\ request'.resource_names_subscribe = DOMAIN resource_state_ \cup names_added_
       /\ request'.resource_names_unsubscribe = {}
       /\ any_request_sent_yet_in_current_stream_']_vars

\* A first request was built whose subscriptions hold a Known and a Waiting name.
C3_Witness ==
  /\ IsRequest(op)
  /\ op.first
  /\ request.resource_names_subscribe \cap KnownNames(resource_state_) # {}
  /\ request.resource_names_subscribe \cap WaitingNames(resource_state_) # {}
  /\ any_request_sent_yet_in_current_stream_

C5_NonceEcho ==
  /\ IsResponse(op) => (ack.nonce = op.message.nonce /\ ack.type_url = TypeUrl)
  /\ op.kind = "next_request_with_ack" => request.response_nonce = op.ack.nonce
  /\ op.kind = "next_request_ackless" => request.response_nonce = NoNonce

\* A rejected response was answered with a NACK that carries its nonce.
C5_Witness ==
  /\ IsResponse(op)
  /\ IsNack(ack)
  /\ ack.nonce \in Nonces

\* The three malformations of a response that C6 names.
RepeatsName(m) ==
  \E i, j \in 1..Len(m.resources) : i # j /\ m.resources[i].name = m.resources[j].name
AddsAndRemoves(m) ==
  \E i \in 1..Len(m.resources) : m.resources[i].name \in Range(m.removed_resources)
ForeignPayload(m) ==
  \E i \in 1..Len(m.resources) : m.resources[i].resource \notin {NoPayload, m.type_url}
Malformed(m) == RepeatsName(m) \/ AddsAndRemoves(m) \/ ForeignPayload(m)
\* removed_resources names one resource twice (rejected at lines 118-123 too).
RepeatsRemoved(m) ==
  \E i, j \in 1..Len(m.removed_resources) :
    i # j /\ m.removed_resources[i] = m.removed_resources[j]

\* C6: a malformed response leaves the table, the timers and the pending sets
\* as they were, never reaches on_config_update, notifies
\* on_update_failed(UpdateRejected) exactly once and is answered with an ack
\* whose error code is Internal.
C6_MalformedRejected ==
  [][(IsResponse(op') /\ Malformed(op'.message)) =>
       /\ UNCHANGED <<resource_state_, ttl_, names_added_, names_removed_>>
       /\ ConfigUpdates(calls') = {}
       /\ Cardinality(UpdateFailures(calls')) = 1
       /\ \A i \in UpdateFailures(calls') : calls'[i].reason = "UpdateRejected"
       /\ ack'.error_detail.code = Internal]_vars

\* A response that names a resource both as added and as removed was handled.
C6_Witness ==
  /\ IsResponse(op)
  /\ AddsAndRemoves(op.message)
  /\ ~RepeatsName(op.message)
  /\ ~ForeignPayload(op.message)
  /\ IsNack(ack)

\* C7: whenever handle_response returns a NACK the resource table is what it
\* was before the call.
C7_NackLeavesTable ==
  [][(IsResponse(op') /\ IsNack(ack')) => resource_state_' = resource_state_]_vars

\* The heartbeat of the glossary: no payload, and the version the table holds.
Heartbeat(table, r) ==
  /\ r.resource = NoPayload
  /\ r.name \in KnownNames(table)
  /\ table[r.name] = r.version

\* C8: with heartbeats enabled no on_config_update call of handle_response
\* carries a heartbeat in its added list, and a response made of heartbeats
\* only, free of repeated names, is answered with an ACK when the watcher
\* accepts it.
C8_HeartbeatsSuppressed ==
  [][(IsResponse(op') /\ (supports_heartbeats_ \/ vhds_heartbeats)) =>
       /\ \A i \in ConfigUpdates(calls') :
            \A k \in 1..Len(calls'[i].added) :
              ~Heartbeat(resource_state_, calls'[i].added[k])
       /\ (/\ \A k \in 1..Len(op'.message.resources) :
                Heartbeat(resource_state_, op'.message.resources[k])
           /\ ~Malformed(op'.message)
           /\ ~RepeatsRemoved(op'.message)
           /\ ~op'.watcher_throws) => ~IsNack(ack')]_vars

\* A response of payload-less resources was accepted and none was forwarded.
C8_Witness ==
  /\ IsResponse(op)
  /\ supports_heartbeats_
  /\ Len(op.message.resources) > 0
  /\ \A k \in 1..Len(op.message.resources) :
       op.message.resources[k].resource = NoPayload /\ ~op.message.resources[k].aliases
  /\ ~IsNack(ack)
  /\ Len(calls) = 1 /\ calls[1].fn = "onConfigUpdate" /\ calls[1].added = <<>>

\* C9: every name in the resource table is a name the user added and has not
\* removed since.
C9_TableWithinInterest == DOMAIN resource_state_ \subseteq interest

\* C10: after an accepted response every removed name that had an entry still
\* has one, in Waiting state, and a removed name without an entry got none;
\* a first request lists every Waiting name in resource_names_subscribe and
\* leaves it out of initial_resource_versions.
C10_RemovedStaysWaiting ==
  [][/\ (IsResponse(op') /\ ~IsNack(ack')) =>
          \A n \in Range(op'.message.removed_resources) :
            IF n \in DOMAIN resource_state_
            THEN n \in WaitingNames(resource_state_')
            ELSE n \notin DOMAIN resource_state_'
     /\ (IsRequest(op') /\ ~any_request_sent_yet_in_current_stream_) =>
          \A n \in WaitingNames(resource_state_) :
            /\ n \in request'.resource_names_subscribe
            /\ n \notin DOMAIN request'.initial_resource_versions]_vars

\* An accepted response removed a name that has an entry, now Waiting.
C10_Witness ==
  /\ IsResponse(op)
  /\ ~IsNack(ack)
  /\ Range(op.message.removed_resources) \cap WaitingNames(resource_state_) # {}

\* C11 as stated: whenever a request is built, every name the user dropped and
\* did not add again, with no request and no new stream since, is listed in
\* resource_names_unsubscribe and not in resource_names_subscribe.
C11_DroppedUnsubscribed ==
  [][(IsRequest(op') /\ history.recording) =>
       /\ history.dropped \subseteq request'.resource_names_unsubscribe
       /\ history.dropped \cap request'.resource_names_subscribe = {}]_vars

\* C11 amended: the same for a request built while any_request_sent_yet is
\* true; a request built while it is false lists no unsubscribe at all.
C11_DroppedUnsubscribedOnStream ==
  [][(IsRequest(op') /\ history.recording) =>
       IF any_request_sent_yet_in_current_stream_
       THEN /\ history.dropped \subseteq request'.resource_names_unsubscribe
            /\ history.dropped \cap request'.resource_names_subscribe = {}
       ELSE request'.resource_names_unsubscribe = {}]_vars

\* A request on a running stream unsubscribed from a dropped name that a TTL
\* expiry or a response had put back into the table.
C11_Witness ==
  /\ IsRequest(op)
  /\ ~op.first
  /\ history.recording
  /\ request.resource_names_unsubscribe \cap history.unwanted \cap DOMAIN resource_state_ # {}

\* The entry of name n in table, or "<absent>".
EntryOf(table, n) == IF n \in DOMAIN table THEN table[n] ELSE "<absent>"

\* C12: an update_interest call leaves every name it removes in
\* names_removed_ only and out of the table, every name it adds and does not
\* remove in names_added_ only and in the table as Waiting, whatever the
\* pending sets and the table held for it, and it leaves every other name as
\* it was; so over a run of calls the last call that names a name decides
\* (remove-then-add subscribes, add-then-remove only unsubscribes).
C12_LastWriterWins ==
  [][op'.kind = "update_interest" =>
       \A n \in Names :
         IF n \in op'.removed
         THEN /\ n \in names_removed_' /\ n \notin names_added_'
              /\ n \notin DOMAIN resource_state_'
         ELSE IF n \in op'.added
         THEN /\ n \in names_added_' /\ n \notin names_removed_'
              /\ EntryOf(resource_state_', n) = Waiting
         ELSE /\ (n \in names_added_') = (n \in names_added_)
              /\ (n \in names_removed_') = (n \in names_removed_)
              /\ EntryOf(resource_state_', n) = EntryOf(resource_state_, n)]_vars

\* One call added a name and removed another: a pending subscribe with a
\* Waiting entry and a pending unsubscribe without an entry coexist.
C12_Witness ==
  /\ op.kind = "update_interest"
  /\ op.added \ op.removed # {}
  /\ op.removed # {}
  /\ op.added \ op.removed \subseteq names_added_ \cap WaitingNames(resource_state_)
  /\ op.removed \subseteq names_removed_ \ DOMAIN resource_state_

\* A resource without payload and without aliases that is no heartbeat.
BareResource(table, r) ==
  /\ r.resource = NoPayload
  /\ ~r.aliases
  /\ ~((supports_heartbeats_ \/ vhds_heartbeats) /\ Heartbeat(table, r))

\* C13: a response that repeats no name, carries no foreign payload and meets
\* an accepting watcher is answered with an ACK also when it holds a resource
\* without payload and aliases that is no heartbeat, and every such resource
\* is in the added list of on_config_update.
C13_BareResourceForwarded ==
  [][(/\ IsResponse(op')
      /\ ~Malformed(op'.message)
      /\ ~RepeatsRemoved(op'.message)
      /\ ~op'.watcher_throws) =>
       \A k \in 1..Len(op'.message.resources) :
         BareResource(resource_state_, op'.message.resources[k]) =>
           /\ ~IsNack(ack')
           /\ \E i \in ConfigUpdates(calls') :
                op'.message.resources[k] \in Range(calls'[i].added)]_vars

\* C14: a request built with an ack has error_detail present exactly when the
\* ack is a NACK, and then it is the ack's error; a request built without an
\* ack has none; and handle_response returns a NACK, whose code is not Ok,
\* exactly when it reported a failure to the watcher.
C14_ErrorDetailIffNack ==
  /\ op.kind = "next_request_with_ack" =>
       /\ request.has_error_detail = IsNack(op.ack)
       /\ request.error_detail = IF IsNack(op.ack) THEN op.ack.error_detail ELSE NoError
  /\ op.kind = "next_request_ackless" =>
       (~request.has_error_detail /\ request.error_detail = NoError)
  /\ IsResponse(op) => (IsNack(ack) = (UpdateFailures(calls) # {}))

\* A request was built with an ACK and carries the nonce without an error.
C14_Witness ==
  /\ op.kind = "next_request_with_ack"
  /\ ~IsNack(op.ack)
  /\ request.response_nonce = op.ack.nonce
  /\ ~request.has_error_detail

\* Nothing is pending but what dynamic_context_changed may ask for.
Flushed ==
  /\ names_added_ = {}
  /\ names_removed_ = {}
  /\ any_request_sent_yet_in_current_stream_

\* C15: subscription_update_pending() returns true exactly when names_added_
\* or names_removed_ is non-empty, any_request_sent_yet is false or
\* dynamic_context_changed is true; building a request leaves both pending
\* sets empty and any_request_sent_yet true, where the predicate returns
\* dynamic_context_changed; and only an update_interest call or the opening
\* of a new stream ends that.
C15_UpdatePending ==
  [][/\ op'.kind = "update_pending" =>
          /\ op'.result = (\/ names_added_ # {}
                           \/ names_removed_ # {}
                           \/ ~any_request_sent_yet_in_current_stream_
                           \/ op'.dynamic_context_changed)
          /\ Flushed => (op'.result = op'.dynamic_context_changed)
     /\ IsRequest(op') => Flushed'
     /\ (Flushed /\ ~Flushed') =>
          \/ op'.kind = "update_interest"
          \/ op' = Idle /\ op = Idle /\ ~any_request_sent_yet_in_current_stream_']_vars

\* After a request, with names in the table, the predicate returned false.
C15_Witness ==
  /\ op.kind = "update_pending"
  /\ ~op.result
  /\ Flushed
  /\ DOMAIN resource_state_ # {}

\* C16 as stated: when the watcher's on_config_update is called for an
\* accepted response, the table is already what the response leaves it.
C16_TableSettledAtCallback ==
  (IsResponse(op) /\ ~IsNack(ack)) => op.resource_state_at_callback = resource_state_

\* C16 amended: when on_config_update is called for an accepted response every
\* resource of the response is Known with its version and every other name,
\* the removed ones too, is as before the response; the removed names that
\* have an entry become Waiting after the call has returned.
C16_KnownAtCallback ==
  [][(IsResponse(op') /\ ~IsNack(ack')) =>
       LET seen == op'.resource_state_at_callback
           message == op'.message
           named == {message.resources[k].name : k \in 1..Len(message.resources)}
       IN /\ \A k \in 1..Len(message.resources) :
               EntryOf(seen, message.resources[k].name) = message.resources[k].version
          /\ \A n \in Names \ named : EntryOf(seen, n) = EntryOf(resource_state_, n)
          /\ \A n \in Names :
               EntryOf(resource_state_', n) =
                 IF n \in Range(message.removed_resources) /\ n \in DOMAIN seen
                 THEN Waiting ELSE EntryOf(seen, n)]_vars

\* An accepted response set one name Known and removed another that was
\* Known when the watcher was called and is Waiting now.
C16_Witness ==
  /\ IsResponse(op)
  /\ ~IsNack(ack)
  /\ Len(op.message.resources) > 0
  /\ \E n \in Range(op.message.removed_resources) :
       /\ n \in KnownNames(op.resource_state_at_callback)
       /\ n \in WaitingNames(resource_state_)

\* A resource without payload that lists aliases and is no heartbeat.
AliasOnly(table, r) ==
  /\ r.resource = NoPayload
  /\ r.aliases
  /\ ~((supports_heartbeats_ \/ vhds_heartbeats) /\ Heartbeat(table, r))

\* C17: an alias-only resource of an accepted response is in the added list
\* of on_config_update, and the table holds for its name what it held before
\* the response: no entry if there was none, else the same state and version.
C17_AliasOnlyLeavesTable ==
  [][(IsResponse(op') /\ ~IsNack(ack')) =>
       \A k \in 1..Len(op'.message.resources) :
         AliasOnly(resource_state_, op'.message.resources[k]) =>
           /\ \E i \in ConfigUpdates(calls') :
                op'.message.resources[k] \in Range(calls'[i].added)
           /\ EntryOf(resource_state_', op'.message.resources[k].name)
                = EntryOf(resource_state_, op'.message.resources[k].name)]_vars

\* C18: after an accepted response the timer of every resource that carries
\* a ttl is armed and that of every resource without one is not, heartbeats
\* included, and the timers of the names the response does not list are as
\* before; a heartbeat leaves the table entry of its name as it was and is
\* not in the added list of on_config_update.
C18_TtlForEveryResource ==
  [][(IsResponse(op') /\ ~IsNack(ack')) =>
       LET message == op'.message
           named == {message.resources[k].name : k \in 1..Len(message.resources)}
       IN /\ \A k \in 1..Len(message.resources) :
               (message.resources[k].name \in ttl_') = message.resources[k].ttl
          /\ \A n \in Names \ named : (n \in ttl_') = (n \in ttl_)
          /\ \A k \in 1..Len(message.resources) :
               ((supports_heartbeats_ \/ vhds_heartbeats)
                  /\ Heartbeat(resource_state_, message.resources[k])) =>
                 /\ EntryOf(resource_state_', message.resources[k].name)
                      = EntryOf(resource_state_, message.resources[k].name)
                 /\ \A i \in ConfigUpdates(calls') :
                      message.resources[k] \notin Range(calls'[i].added)]_vars

\* An accepted response held a resource with a ttl that was not forwarded, a
\* heartbeat: its timer is armed and its name is Known.
C18_Witness ==
  /\ IsResponse(op)
  /\ ~IsNack(ack)
  /\ \E k \in 1..Len(op.message.resources) :
       /\ op.message.resources[k].ttl
       /\ op.message.resources[k].name \in ttl_ \cap KnownNames(resource_state_)
       /\ \A i \in ConfigUpdates(calls) :
            op.message.resources[k] \notin Range(calls[i].added)

\* C19: a TTL expiry leaves every expired name in the table as Waiting and
\* every other name as it was, calls on_config_update exactly once, with no
\* added resource, the expired names as removed and the version "", builds
\* no request, and leaves names_added_, names_removed_, any_request_sent_yet
\* and with them subscription_update_pending() as they were.
C19_TtlExpiry ==
  [][op'.kind = "ttl_expiry" =>
       /\ \A n \in Names :
            EntryOf(resource_state_', n) =
              IF n \in Range(op'.expired) THEN Waiting ELSE EntryOf(resource_state_, n)
       /\ calls' = <<OnConfigUpdate(<<>>, op'.expired, "")>>
       /\ request' = NoRequest
       /\ UNCHANGED <<names_added_, names_removed_,
                      any_request_sent_yet_in_current_stream_>>
       /\ \A d \in BOOLEAN :
            subscriptionUpdatePending(d)' = subscriptionUpdatePending(d)]_vars

\* The timers of two Known names fired in one batch on a stream with nothing
\* pending: both names are Waiting and nothing is pending.
C19_Witness ==
  /\ op.kind = "ttl_expiry"
  /\ Len(op.expired) = 2
  /\ Range(op.expired) \subseteq WaitingNames(resource_state_)
  /\ Flushed
  /\ Len(calls) = 1

\* C20: no request lists, in resource_names_subscribe or in
\* initial_resource_versions, a name whose last interest change was a
\* removal, whatever responses, TTL expiries and new streams came since.
C20_DroppedNeverRequested ==
  [][(IsRequest(op') /\ history.recording) =>
       \A x \in history.unwanted :
         /\ x \notin request'.resource_names_subscribe
         /\ x \notin DOMAIN request'.initial_resource_versions]_vars

====
